---- MODULE Spec2Model ----
(***************************************************************************)
(* Model of package strconvex: the path tokenizer (Parse / Path.Next /     *)
(* validElement), the element parser (ParseElement) and the path resolver  *)
(* (Find / valueByKey / Get / Set).                                        *)
(*                                                                         *)
(* A Go string is a sequence of one-character strings, so that slicing,    *)
(* splitting and scanning are computed the way the code computes them.     *)
(* Go indexes from 0 and TLA+ from 1: the byte path[i] of the code is      *)
(* path[i + 1] here, and the slice s[a:b] is Slice(s, a, b).               *)
(***************************************************************************)
EXTENDS Integers, Sequences, FiniteSets, TLC

VARIABLES
    p,       \* the Path iterator: [path, current, length]
    yields,  \* what the successive p.Next() calls returned, oldest first
    root,    \* the caller's value that Find, Get and Set are handed
    ret      \* the resolver call that has just returned, or Idle

vars == <<p, yields, root, ret>>

----------------------------------------------------------------------------
(* Bounds                                                                  *)

\* longest path string handed to Parse
MaxLen == 7

\* most pieces (names, bracketed keys, separators, stray brackets) a path
\* handed to Find, Get or Set is put together from
MaxPieces == 4
MaxSegments == 3

\* p.Next() is called at most this often on one Path (two more calls than
\* the longest token stream, so that calls after the end are observed)
MaxCalls == MaxLen + 3

\* the characters paths are made of: one ordinary character and the three
\* characters Path.Next switches on
PathChars == {"a", "[", "]", "."}

RECURSIVE SeqsUpTo(_, _)
SeqsUpTo(S, n) ==
    IF n = 0 THEN {<<>>}
    ELSE LET shorter == SeqsUpTo(S, n - 1)
         IN  shorter \cup {Append(s, c) : s \in {t \in shorter : Len(t) = n - 1}, c \in S}

PathStrings == SeqsUpTo(PathChars, MaxLen)

----------------------------------------------------------------------------
(* Go string helpers                                                       *)

\* s[a:b]
Slice(s, a, b) == SubSeq(s, a + 1, b)

\* the strings of ss, one after the other
RECURSIVE Concat(_)
Concat(ss) == IF ss = <<>> THEN <<>> ELSE Head(ss) \o Concat(Tail(ss))

----------------------------------------------------------------------------
(* Token                                                                   *)

InvalidToken   == "InvalidToken"
NoToken        == "NoToken"
NameToken      == "NameToken"
KeyToken       == "KeyToken"
KeyedNameToken == "KeyedNameToken"

Token == {InvalidToken, NoToken, NameToken, KeyToken, KeyedNameToken}

----------------------------------------------------------------------------
(* Path                                                                    *)

Parse(path) == [path |-> path, current |-> 0, length |-> Len(path)]

\* validElement without the empty-key check
validElementAnyKey(element) == Len(element) # 0

\* validElement testing the last two characters only of a longer element
validElementLongOnly(element) ==
    IF Len(element) = 0 THEN FALSE
    ELSE IF Len(element) > 2
            /\ Slice(element, Len(element) - 2, Len(element)) = <<"[", "]">>
         THEN FALSE
         ELSE TRUE

validElement(element) ==
    IF Len(element) = 0 THEN FALSE
    ELSE IF Len(element) >= 2
            /\ Slice(element, Len(element) - 2, Len(element)) = <<"[", "]">>
         THEN FALSE
         ELSE TRUE

\* What one call of Next hands back: the two results and the value it
\* leaves in p.current.
Return(element, token, current) ==
    [element |-> element, token |-> token, current |-> current]

\* CloseKey reporting every bracketed element as a bare key
CloseKeyAsKey(q, cur, i, token) ==
    LET element == Slice(q.path, cur, i + 1)
    IN  IF ~validElement(element)
        THEN Return(<<>>, InvalidToken, cur)
        ELSE Return(element, KeyToken, i + 1)

\* CloseKey cutting the element before the closing bracket
CloseKeyShort(q, cur, i, token) ==
    LET element == Slice(q.path, cur, i)
    IN  IF ~validElement(element)
        THEN Return(<<>>, InvalidToken, cur)
        ELSE Return(element, token, i + 1)

\* case ']' with a key open: the element runs through the bracket
CloseKey(q, cur, i, token) ==
    LET element == Slice(q.path, cur, i + 1)
    IN  IF ~validElement(element)
        THEN Return(<<>>, InvalidToken, cur)
        ELSE Return(element, token, i + 1)

\* EndName leaving the cursor where it was
EndNameNoAdvance(q, cur, i) ==
    LET element == Slice(q.path, cur, i)
    IN  IF ~validElement(element)
        THEN Return(<<>>, InvalidToken, cur)
        ELSE Return(element, NameToken, cur)

\* token == NameToken at a '.' or at the end of the path: the element is
\* the run before i
EndName(q, cur, i) ==
    LET element == Slice(q.path, cur, i)
    IN  IF ~validElement(element)
        THEN Return(<<>>, InvalidToken, cur)
        ELSE Return(element, NameToken, i)

\* AtEnd rewinding the cursor when it reports NoToken
AtEndRewind(q, cur, i, token) ==
    CASE token = InvalidToken -> Return(<<>>, NoToken, 0)
      [] token \in {KeyToken, KeyedNameToken} -> Return(<<>>, InvalidToken, cur)
      [] token = NameToken -> EndName(q, cur, i)
      [] OTHER -> Return(<<>>, NoToken, cur)

\* the switch after the for loop
AtEnd(q, cur, i, token) ==
    CASE token = InvalidToken -> Return(<<>>, NoToken, cur)
      [] token \in {KeyToken, KeyedNameToken} -> Return(<<>>, InvalidToken, cur)
      [] token = NameToken -> EndName(q, cur, i)
      [] OTHER -> Return(<<>>, NoToken, cur)

\* The for loop of Next from index i on; cur is p.current, which the
\* leading-separator case moves before the call returns, and token is the
\* named result so far.
RECURSIVE Scan(_, _, _, _)
Scan(q, cur, i, token) ==
    IF i >= q.length THEN AtEnd(q, cur, i, token)
    ELSE LET c == q.path[i + 1]
         IN  CASE c = "[" ->
                    (CASE token = InvalidToken -> Scan(q, cur, i + 1, KeyToken)
                       [] token = NameToken -> Scan(q, cur, i + 1, KeyedNameToken)
                       [] token \in {KeyToken, KeyedNameToken} ->
                            Return(<<>>, InvalidToken, cur)
                       [] OTHER -> Scan(q, cur, i + 1, token))
               [] c = "]" ->
                    IF token \in {InvalidToken, NameToken}
                    THEN Return(<<>>, InvalidToken, cur)
                    ELSE CloseKey(q, cur, i, token)
               [] c = "." ->
                    (CASE token = InvalidToken -> Scan(q, i + 1, i + 1, NameToken)
                       [] token \in {KeyToken, KeyedNameToken} ->
                            Return(<<>>, InvalidToken, cur)
                       [] token = NameToken -> EndName(q, cur, i)
                       [] OTHER -> Return(Slice(q.path, cur, i + 1), token, i + 1))
               [] OTHER ->
                    Scan(q, cur, i + 1,
                         IF token = InvalidToken THEN NameToken ELSE token)

\* func (p *Path) Next() (element string, token Token): token starts as
\* the zero Token, InvalidToken, and the loop starts at p.current
PathNext(q) == Scan(q, q.current, q.current, InvalidToken)

----------------------------------------------------------------------------
(* Go strings of the standard library, on sequences of characters          *)

\* strings.TrimPrefix / strings.TrimSuffix with a one-character affix
TrimPrefix(s, c) == IF Len(s) > 0 /\ s[1] = c THEN Tail(s) ELSE s

TrimSuffix(s, c) ==
    IF Len(s) > 0 /\ s[Len(s)] = c THEN SubSeq(s, 1, Len(s) - 1) ELSE s

\* strings.Split(s, sep) with a one-character separator: always at least
\* one part
RECURSIVE Split(_, _)
Split(s, c) ==
    IF \A k \in 1..Len(s) : s[k] # c THEN <<s>>
    ELSE LET k == CHOOSE k \in 1..Len(s) :
                    s[k] = c /\ \A j \in 1..(k - 1) : s[j] # c
         IN  <<SubSeq(s, 1, k - 1)>> \o Split(SubSeq(s, k + 1, Len(s)), c)

Digits == <<"0", "1", "2", "3", "4", "5", "6", "7", "8", "9">>

IsDigit(c) == \E d \in 1..10 : Digits[d] = c

DigitValue(c) == (CHOOSE d \in 1..10 : Digits[d] = c) - 1

RECURSIVE Decimal(_, _)
Decimal(s, acc) ==
    IF s = <<>> THEN acc ELSE Decimal(Tail(s), acc * 10 + DigitValue(Head(s)))

\* strconv.ParseInt(s, 10, 64), which strconv.Atoi agrees with on a 64-bit
\* build: an optional sign, then at least one digit and nothing else.  The
\* texts of this model have fewer than ten digits, so the range error of
\* ParseInt (a number outside 64 bits) does not arise.  [n, err]
ParseInt(s) ==
    LET body == IF Len(s) > 0 /\ s[1] \in {"+", "-"} THEN Tail(s) ELSE s
        neg  == Len(s) > 0 /\ s[1] = "-"
    IN  IF body = <<>> \/ \E k \in 1..Len(body) : ~IsDigit(body[k])
        THEN [n |-> 0, err |-> "strconv.ErrSyntax"]
        ELSE [n |-> IF neg THEN 0 - Decimal(body, 0) ELSE Decimal(body, 0),
              err |-> "nil"]

Atoi(s) == ParseInt(s)

\* strconv.ParseUint(s, 10, 64): at least one digit and nothing else, a sign
\* is a syntax error.  [n, err]
ParseUint(s) ==
    IF s = <<>> \/ \E k \in 1..Len(s) : ~IsDigit(s[k])
    THEN [n |-> 0, err |-> "strconv.ErrSyntax"]
    ELSE [n |-> Decimal(s, 0), err |-> "nil"]

\* strings.TrimSpace on text whose only white space is the space character
RECURSIVE TrimSpace(_)
TrimSpace(s) ==
    IF Len(s) > 0 /\ s[1] = " " THEN TrimSpace(Tail(s))
    ELSE IF Len(s) > 0 /\ s[Len(s)] = " " THEN TrimSpace(SubSeq(s, 1, Len(s) - 1))
    ELSE s

\* strconv.ParseBool
ParseBool(s) ==
    IF s \in {<<"1">>, <<"t">>, <<"T">>, <<"t", "r", "u", "e">>,
              <<"T", "R", "U", "E">>, <<"T", "r", "u", "e">>}
    THEN [b |-> TRUE, err |-> "nil"]
    ELSE IF s \in {<<"0">>, <<"f">>, <<"F">>, <<"f", "a", "l", "s", "e">>,
                   <<"F", "A", "L", "S", "E">>, <<"F", "a", "l", "s", "e">>}
         THEN [b |-> FALSE, err |-> "nil"]
         ELSE [b |-> FALSE, err |-> "strconv.ErrSyntax"]

\* strconv.Unquote on text without backslash, newline, single quote or
\* back quote: the text must be at least two characters, start and end
\* with a double quote, and hold no double quote in between.  [s, err]
Unquote(s) ==
    IF Len(s) < 2 \/ s[1] # "\"" \/ s[Len(s)] # "\""
    THEN [s |-> <<>>, err |-> "strconv.ErrSyntax"]
    ELSE LET inner == SubSeq(s, 2, Len(s) - 1)
         IN  IF \E k \in 1..Len(inner) : inner[k] = "\""
             THEN [s |-> <<>>, err |-> "strconv.ErrSyntax"]
             ELSE [s |-> inner, err |-> "nil"]

----------------------------------------------------------------------------
(* Errors                                                                  *)

ErrInvalidPath     == "ErrInvalidPath"
ErrInvalidValue    == "ErrInvalidValue"
ErrInvalidArgument == "ErrInvalidArgument"
ErrUnsupportedValue == "ErrUnsupportedValue"

\* fmt.Errorf("%w: element to index: %v", ErrInvalidPath, err) and
\* fmt.Errorf("%w: key to value: %v", ErrInvalidPath, err)
ErrElementToIndex == "ErrInvalidPath: element to index"
ErrKeyToValue     == "ErrInvalidPath: key to value"

\* errors.New("index out of range")
ErrIndexOutOfRange == "index out of range"

\* errors.New("strconvex: syntax error"), errors.New("strconvex: field not found")
ErrSyntax        == "strconvex: syntax error"
ErrFieldNotFound == "strconvex: field not found"

\* errors.Is(err, ErrInvalidPath)
IsInvalidPath(err) == err \in {ErrInvalidPath, ErrElementToIndex, ErrKeyToValue}

----------------------------------------------------------------------------
(* Go values as reflect sees them                                          *)

\* the zero reflect.Value: IsValid() is false, Kind() is Invalid
InvalidValue == [kind |-> "invalid"]

StringValue(s) == [kind |-> "string", s |-> s]
IntValue(n)    == [kind |-> "int", n |-> n]
BoolValue(b)   == [kind |-> "bool", b |-> b]

\* fields: a sequence of [name, anonymous, value], in declaration order
StructValue(fields) == [kind |-> "struct", fields |-> fields]

Field(name, value)    == [name |-> name, anonymous |-> FALSE, value |-> value]
Embedded(name, value) == [name |-> name, anonymous |-> TRUE, value |-> value]

ArrayValue(elems) == [kind |-> "array", elems |-> elems]
SliceValue(elems) == [kind |-> "slice", elems |-> elems]

\* entries: a sequence of <<key, value>> with distinct keys; key is the
\* zero value of the key type
MapValue(key, entries) == [kind |-> "map", key |-> key, entries |-> entries]

PointerValue(elem) == [kind |-> "ptr", elem |-> elem]

\* integers of a declared width: the kind names the width, as reflect.Kind
\* does.  The kind "int" is the 64-bit int of a 64-bit build.
Int8Value(n)   == [kind |-> "int8", n |-> n]
Int16Value(n)  == [kind |-> "int16", n |-> n]
Uint8Value(n)  == [kind |-> "uint8", n |-> n]
Uint16Value(n) == [kind |-> "uint16", n |-> n]

IntKinds  == {"int", "int8", "int16"}
UintKinds == {"uint8", "uint16"}

\* the width in bits of the narrow integer kinds
Bits(kind) == IF kind \in {"int8", "uint8"} THEN 8 ELSE 16

\* reflect.Value.Convert from int64 or uint64 to an integer kind: the low
\* bits of the number, read as signed or unsigned.  Every number of this
\* model fits the 64-bit kind "int".
Convert(n, kind) ==
    IF kind = "int" THEN n
    ELSE LET m == 2 ^ Bits(kind)
         IN  IF kind \in IntKinds THEN ((n + m \div 2) % m) - m \div 2
             ELSE n % m

\* a slice or a map together with the zero value of its element type, which
\* reflect reads from out.Type().Elem() also when the container is empty
SliceOf(elem, elems) == [kind |-> "slice", elem |-> elem, elems |-> elems]
MapOf(key, elem, entries) ==
    [kind |-> "map", key |-> key, elem |-> elem, entries |-> entries]

\* reflect.Indirect(reflect.New(v.Type())): the zero value of the type of v
RECURSIVE Zero(_)
Zero(v) ==
    CASE v.kind = "string" -> StringValue(<<>>)
      [] v.kind = "bool" -> BoolValue(FALSE)
      [] v.kind \in IntKinds \cup UintKinds -> [v EXCEPT !.n = 0]
      [] v.kind = "array" ->
             ArrayValue([i \in 1..Len(v.elems) |-> Zero(v.elems[i])])
      [] v.kind = "struct" ->
             StructValue([i \in 1..Len(v.fields) |->
                            [v.fields[i] EXCEPT !.value = Zero(v.fields[i].value)]])
      [] v.kind = "slice" -> [v EXCEPT !.elems = <<>>]
      [] v.kind = "map" -> [v EXCEPT !.entries = <<>>]
      [] OTHER -> v

\* Value.IsValid
IsValid(v) == v.kind # "invalid"

\* the nil interface value
NilInterface == [kind |-> "nil"]

\* reflect.Indirect
Indirect(v) == IF v.kind = "ptr" THEN v.elem ELSE v

\* Value.FieldByName on a struct: a field of the struct itself, else the
\* field of that name promoted from an embedded struct when exactly one
\* embedded struct has it; the zero Value when there is none.
RECURSIVE FieldByName(_, _)
FieldByName(v, name) ==
    LET own == {k \in 1..Len(v.fields) : v.fields[k].name = name}
        promoted == {k \in 1..Len(v.fields) :
                        /\ v.fields[k].anonymous
                        /\ Indirect(v.fields[k].value).kind = "struct"
                        /\ IsValid(FieldByName(Indirect(v.fields[k].value), name))}
    IN  IF own # {} THEN v.fields[CHOOSE k \in own : TRUE].value
        ELSE IF Cardinality(promoted) = 1
             THEN FieldByName(Indirect(v.fields[CHOOSE k \in promoted : TRUE].value), name)
             ELSE InvalidValue

\* field.Set(val) on the field FieldByName found: the struct with that field
\* replaced
RECURSIVE SetField(_, _, _)
SetField(v, name, val) ==
    LET own == {k \in 1..Len(v.fields) : v.fields[k].name = name}
        promoted == {k \in 1..Len(v.fields) :
                        /\ v.fields[k].anonymous
                        /\ v.fields[k].value.kind = "struct"
                        /\ IsValid(FieldByName(v.fields[k].value, name))}
    IN  IF own # {}
        THEN [v EXCEPT !.fields[CHOOSE k \in own : TRUE].value = val]
        ELSE IF Cardinality(promoted) = 1
             THEN LET k == CHOOSE k \in promoted : TRUE
                  IN  [v EXCEPT !.fields[k].value = SetField(v.fields[k].value, name, val)]
             ELSE v

\* Value.SetMapIndex: the entry of the key is replaced or added
SetMapIndex(m, key, val) ==
    LET hit == {k \in 1..Len(m.entries) : m.entries[k][1] = key}
    IN  IF hit = {} THEN [m EXCEPT !.entries = Append(m.entries, <<key, val>>)]
        ELSE [m EXCEPT !.entries[CHOOSE k \in hit : TRUE] = <<key, val>>]

\* Value.MapIndex: the zero Value when the key is absent
MapIndex(m, key) ==
    LET hit == {k \in 1..Len(m.entries) : m.entries[k][1] = key}
    IN  IF hit = {} THEN InvalidValue ELSE m.entries[CHOOSE k \in hit : TRUE][2]

----------------------------------------------------------------------------
(* The converter.  Every operator returns [val, err]: val is what out      *)
(* holds after the call.  No type of this model implements                 *)
(* encoding.TextUnmarshaler, and floats and complex numbers are left out.  *)

RECURSIVE StringToValue(_, _)

stringToBoolValue(in, out) ==
    LET r == ParseBool(in)
    IN  IF r.err # "nil" THEN [val |-> out, err |-> r.err]
        ELSE [val |-> BoolValue(r.b), err |-> "nil"]

stringToIntValue(in, out) ==
    LET r == ParseInt(in)
    IN  IF r.err # "nil" THEN [val |-> out, err |-> r.err]
        ELSE [val |-> [out EXCEPT !.n = Convert(r.n, out.kind)], err |-> "nil"]

stringToUintValue(in, out) ==
    LET r == ParseUint(in)
    IN  IF r.err # "nil" THEN [val |-> out, err |-> r.err]
        ELSE [val |-> [out EXCEPT !.n = Convert(r.n, out.kind)], err |-> "nil"]

stringToStringValue(in, out) == [val |-> StringValue(in), err |-> "nil"]

\* the loop of stringToArrayValue from index i on, v the array being filled
RECURSIVE arrayLoop(_, _, _)
arrayLoop(a, i, v) ==
    IF i > Len(v.elems) \/ i > Len(a) THEN [val |-> v, err |-> "nil"]
    ELSE LET r == StringToValue(TrimSpace(a[i]), v.elems[i])
         IN  IF r.err # "nil" THEN [val |-> v, err |-> r.err]
             ELSE arrayLoop(a, i + 1, [v EXCEPT !.elems[i] = r.val])

stringToArrayValueInPlace(in, out) ==
    LET r == arrayLoop(Split(in, ","), 1, out)
    IN  IF r.err # "nil" THEN [val |-> out, err |-> r.err] ELSE r

stringToArrayValue(in, out) ==
    LET r == arrayLoop(Split(in, ","), 1, Zero(out))
    IN  IF r.err # "nil" THEN [val |-> out, err |-> r.err] ELSE r

\* the loop of stringToSliceValue from index i on
RECURSIVE sliceLoop(_, _, _)
sliceLoop(a, i, parsedval) ==
    IF i > Len(a) THEN [val |-> parsedval, err |-> "nil"]
    ELSE LET r == StringToValue(a[i], parsedval.elems[i])
         IN  IF r.err # "nil" THEN [val |-> parsedval, err |-> r.err]
             ELSE sliceLoop(a, i + 1, [parsedval EXCEPT !.elems[i] = r.val])

stringToSliceValue(in, out) ==
    LET a == Split(in, ",")
        r == sliceLoop(a, 1, [out EXCEPT !.elems = [i \in 1..Len(a) |-> out.elem]])
    IN  IF r.err # "nil" THEN [val |-> out, err |-> r.err] ELSE r

\* the loop of stringToMapValue from segment i on
RECURSIVE mapLoop(_, _, _)
mapLoop(segs, i, newmap) ==
    IF i > Len(segs) THEN [val |-> newmap, err |-> "nil"]
    ELSE LET pair == Split(TrimSpace(segs[i]), "=")
         IN  IF Len(pair) # 2 THEN [val |-> newmap, err |-> ErrSyntax]
             ELSE LET key == StringToValue(pair[1], newmap.key)
                      val == StringToValue(pair[2], newmap.elem)
                  IN  IF key.err # "nil" THEN [val |-> newmap, err |-> key.err]
                      ELSE IF val.err # "nil" THEN [val |-> newmap, err |-> val.err]
                      ELSE mapLoop(segs, i + 1, SetMapIndex(newmap, key.val, val.val))

stringToMapValueMerge(in, out) ==
    LET r == mapLoop(Split(in, ","), 1, out)
    IN  IF r.err # "nil" THEN [val |-> out, err |-> r.err] ELSE r

stringToMapValue(in, out) ==
    LET r == mapLoop(Split(in, ","), 1, Zero(out))
    IN  IF r.err # "nil" THEN [val |-> out, err |-> r.err] ELSE r

\* the loop of stringToStructValue from segment i on: a field is set as soon
\* as its text is converted, so the fields set before a failing segment
\* keep their new values
RECURSIVE structLoop(_, _, _)
structLoop(segs, i, out) ==
    IF i > Len(segs) THEN [val |-> out, err |-> "nil"]
    ELSE LET pair == Split(TrimSpace(segs[i]), "=")
         IN  IF Len(pair) # 2 THEN [val |-> out, err |-> ErrSyntax]
             ELSE LET field == FieldByName(out, pair[1])
                  IN  IF ~IsValid(field) THEN [val |-> out, err |-> ErrFieldNotFound]
                      ELSE LET val == StringToValue(pair[2], Zero(field))
                           IN  IF val.err # "nil" THEN [val |-> out, err |-> val.err]
                               ELSE structLoop(segs, i + 1, SetField(out, pair[1], val.val))

stringToStructValueFresh(in, out) ==
    structLoop(Split(TrimPrefix(TrimSuffix(in, "}"), "{"), ","), 1, Zero(out))

stringToStructValue(in, out) ==
    structLoop(Split(TrimPrefix(TrimSuffix(in, "}"), "{"), ","), 1, out)

stringToPointerValue(in, out) ==
    LET r == StringToValue(in, Zero(out.elem))
    IN  IF r.err # "nil" THEN [val |-> out, err |-> r.err]
        ELSE [val |-> PointerValue(r.val), err |-> "nil"]

stringToValue(in, out) ==
    CASE out.kind = "bool" -> stringToBoolValue(in, out)
      [] out.kind \in IntKinds -> stringToIntValue(in, out)
      [] out.kind \in UintKinds -> stringToUintValue(in, out)
      [] out.kind = "string" -> stringToStringValue(in, out)
      [] out.kind = "array" -> stringToArrayValue(in, out)
      [] out.kind = "slice" -> stringToSliceValue(in, out)
      [] out.kind = "map" -> stringToMapValue(in, out)
      [] out.kind = "struct" -> stringToStructValue(in, out)
      [] out.kind = "ptr" -> stringToPointerValue(in, out)
      [] OTHER -> [val |-> out, err |-> ErrUnsupportedValue]

StringToValue(in, out) ==
    IF ~IsValid(out) THEN [val |-> out, err |-> ErrInvalidValue]
    ELSE stringToValue(in, out)

----------------------------------------------------------------------------
(* ParseElement                                                            *)

\* [name, key, err]
ParseElementAnyText(element, token) ==
    CASE token \in {InvalidToken, NoToken} ->
             [name |-> <<>>, key |-> <<>>, err |-> ErrInvalidArgument]
      [] token = NameToken ->
             [name |-> element, key |-> <<>>, err |-> "nil"]
      [] token = KeyToken ->
             LET u == Unquote(TrimPrefix(TrimSuffix(element, "]"), "["))
             IN  IF u.err # "nil"
                 THEN [name |-> <<>>, key |-> <<>>, err |-> u.err]
                 ELSE [name |-> <<>>, key |-> u.s, err |-> "nil"]
      [] token = KeyedNameToken ->
             LET a == Split(element, "[")
             IN  IF Len(a) # 2
                 THEN [name |-> <<>>, key |-> <<>>, err |-> ErrInvalidPath]
                 ELSE [name |-> a[1], key |-> TrimSuffix(a[2], "]"), err |-> "nil"]

ParseElementKeepBracket(element, token) ==
    IF element = <<>>
    THEN [name |-> <<>>, key |-> <<>>, err |-> ErrInvalidArgument]
    ELSE CASE token \in {InvalidToken, NoToken} ->
                [name |-> <<>>, key |-> <<>>, err |-> ErrInvalidArgument]
           [] token = NameToken ->
                [name |-> element, key |-> <<>>, err |-> "nil"]
           [] token = KeyToken ->
                LET u == Unquote(TrimPrefix(TrimSuffix(element, "]"), "["))
                IN  IF u.err # "nil"
                    THEN [name |-> <<>>, key |-> <<>>, err |-> u.err]
                    ELSE [name |-> <<>>, key |-> u.s, err |-> "nil"]
           [] token = KeyedNameToken ->
                LET a == Split(element, "[")
                IN  IF Len(a) # 2
                    THEN [name |-> <<>>, key |-> <<>>, err |-> ErrInvalidPath]
                    ELSE [name |-> a[1], key |-> a[2], err |-> "nil"]

ParseElement(element, token) ==
    IF element = <<>>
    THEN [name |-> <<>>, key |-> <<>>, err |-> ErrInvalidArgument]
    ELSE CASE token \in {InvalidToken, NoToken} ->
                [name |-> <<>>, key |-> <<>>, err |-> ErrInvalidArgument]
           [] token = NameToken ->
                [name |-> element, key |-> <<>>, err |-> "nil"]
           [] token = KeyToken ->
                LET u == Unquote(TrimPrefix(TrimSuffix(element, "]"), "["))
                IN  IF u.err # "nil"
                    THEN [name |-> <<>>, key |-> <<>>, err |-> u.err]
                    ELSE [name |-> <<>>, key |-> u.s, err |-> "nil"]
           [] token = KeyedNameToken ->
                LET a == Split(element, "[")
                IN  IF Len(a) # 2
                    THEN [name |-> <<>>, key |-> <<>>, err |-> ErrInvalidPath]
                    ELSE [name |-> a[1], key |-> TrimSuffix(a[2], "]"), err |-> "nil"]

----------------------------------------------------------------------------
(* Find, valueByKey, Get, Set                                              *)

\* What a call hands back: the value, the error, and whether the call
\* panicked instead of returning.
Result(val, err) == [val |-> val, err |-> err, panic |-> FALSE]

Panic == [val |-> InvalidValue, err |-> "nil", panic |-> TRUE]

\* Value.Index(i) panics when i is out of range, a negative i included
valueByKey(value, key) ==
    CASE value.kind \in {"array", "slice"} ->
            LET a == Atoi(key)
            IN  IF a.err # "nil" THEN Result(InvalidValue, ErrElementToIndex)
                ELSE IF a.n >= Len(value.elems)
                     THEN Result(InvalidValue, ErrIndexOutOfRange)
                     ELSE IF a.n < 0 THEN Panic
                          ELSE Result(value.elems[a.n + 1], "nil")
      [] value.kind = "map" ->
            LET mapkey == StringToValue(key, value.key)
            IN  IF mapkey.err # "nil" THEN Result(InvalidValue, ErrKeyToValue)
                ELSE Result(MapIndex(value, mapkey.val), "nil")
      [] OTHER -> Result(InvalidValue, ErrInvalidPath)

\* The loop of Find: parser is the local Path, current the value reached.
RECURSIVE FindLoop(_, _)
FindLoop(parser, current) ==
    LET r == PathNext(parser)
        advanced == [parser EXCEPT !.current = r.current]
    IN  CASE r.token = InvalidToken -> Result(InvalidValue, ErrInvalidPath)
          [] r.token = NoToken -> Result(current, "nil")
          [] r.token = NameToken ->
                IF current.kind # "struct"
                THEN Result(InvalidValue, ErrInvalidPath)
                ELSE FindLoop(advanced, FieldByName(current, r.element))
          [] r.token = KeyToken ->
                LET e == ParseElement(r.element, r.token)
                IN  IF e.err # "nil" THEN Result(InvalidValue, e.err)
                    ELSE valueByKey(current, e.key)
          [] r.token = KeyedNameToken ->
                IF current.kind # "struct"
                THEN Result(InvalidValue, ErrInvalidPath)
                ELSE LET e == ParseElement(r.element, r.token)
                     IN  IF e.err # "nil" THEN Result(InvalidValue, e.err)
                         ELSE IF ~IsValid(FieldByName(current, e.name))
                              THEN Result(InvalidValue, ErrInvalidPath)
                              ELSE valueByKey(FieldByName(current, e.name), e.key)

Find(path, rootv) ==
    IF path = <<>> THEN Result(InvalidValue, ErrInvalidPath)
    ELSE IF rootv.kind = "nil" THEN Result(InvalidValue, ErrInvalidArgument)
         ELSE FindLoop(Parse(path), Indirect(rootv))

\* Value.Interface() panics on the zero Value
Get(path, rootv) ==
    LET r == Find(path, rootv)
    IN  IF r.panic THEN Panic
        ELSE IF r.err # "nil" THEN Result(InvalidValue, r.err)
             ELSE IF ~IsValid(r.val) THEN Panic
                  ELSE Result(r.val, "nil")

\* Set has the body "return nil": [root, err], the root as the call leaves it
Set(path, value, rootv) == [root |-> rootv, err |-> "nil"]

\* MustFind panics with the error of Find
MustFind(path, rootv) ==
    LET r == Find(path, rootv)
    IN  IF r.panic \/ r.err # "nil" THEN Panic ELSE r

\* MustGet has the body "return nil": the nil interface, whatever the path
MustGet(path, rootv) == Result(NilInterface, "nil")

\* MustSet has an empty body: [root, panic]
MustSet(path, value, rootv) == [root |-> rootv, panic |-> FALSE]

----------------------------------------------------------------------------
(* Specification of the tokenizer: Parse(path) for every path string up to *)
(* MaxLen characters, then repeated calls of Next.                         *)

Yield(element, token, from, to) ==
    [element |-> element, token |-> token, from |-> from, to |-> to]

\* no resolver call has been made, or its result has been consumed
Idle == [op |-> "idle", path |-> <<>>, text |-> <<>>, on |-> InvalidValue,
         wrote |-> FALSE, val |-> InvalidValue, err |-> "nil", panic |-> FALSE]

Init ==
    /\ \E path \in PathStrings : p = Parse(path)
    /\ yields = <<>>
    /\ root = NilInterface
    /\ ret = Idle

NextCall ==
    /\ Len(yields) < MaxCalls
    /\ LET r == PathNext(p)
       IN  /\ p' = [p EXCEPT !.current = r.current]
           /\ yields' = Append(yields, Yield(r.element, r.token, p.current, r.current))
    /\ UNCHANGED <<root, ret>>

Next == NextCall

Spec == Init /\ [][Next]_vars

----------------------------------------------------------------------------
(* Specification of the resolver: a root value after getData() of the      *)
(* tests (two elements per container instead of five), or one of its       *)
(* containers or a string as the root; one call at a time, with its path   *)
(* put together from pieces.                                               *)

sBool   == <<"B", "o", "o", "l">>
sInt    == <<"I", "n", "t">>
sString == <<"S", "t", "r", "i", "n", "g">>
sChild  == <<"C", "h", "i", "l", "d">>
sArray  == <<"A", "r", "r", "a", "y">>
sSlice  == <<"S", "l", "i", "c", "e">>
sMap    == <<"M", "a", "p">>
sNope   == <<"N", "o", "p", "e">>
sOne    == <<"O", "n", "e">>
sTwo    == <<"T", "w", "o">>
sFoo    == <<"F", "o", "o">>

Child(b, n, str) ==
    StructValue(<<Field(sBool, BoolValue(b)), Field(sInt, IntValue(n)),
                  Field(sString, StringValue(str))>>)

ChildOne == Child(TRUE, 1, sOne)
ChildTwo == Child(FALSE, 2, sTwo)

DataArray == ArrayValue(<<ChildOne, ChildTwo>>)
DataSlice == SliceValue(<<ChildOne, ChildTwo>>)
DataMap ==
    MapValue(StringValue(<<>>),
             <<  <<StringValue(sOne), ChildOne>>, <<StringValue(sTwo), ChildTwo>>  >>)

\* getData(): a *Root
Data ==
    PointerValue(StructValue(<<Embedded(sChild, Child(FALSE, 0, <<>>)),
                               Field(sArray, DataArray),
                               Field(sSlice, DataSlice),
                               Field(sMap, DataMap)>>))

Roots == {Data, DataSlice, DataMap, StringValue(sFoo)}

Pieces ==
    { sMap, sSlice, sString, sNope,
      <<"[", "O", "n", "e", "]">>, <<"[", "1", "]">>, <<"[", "-", "1", "]">>,
      <<"[", "\"", "1", "\"", "]">>,
      <<".">>, <<"[">> }

FindPaths == {Concat(ps) : ps \in SeqsUpTo(Pieces, MaxPieces)}

\* the texts Set is handed
Texts == {sFoo}

\* the values and key texts valueByKey is applied to
KeyTargets == {DataArray, DataSlice, DataMap, ChildOne}

KeyTexts ==
    { <<"0">>, <<"1">>, <<"2">>, <<"0", "1">>, <<"+", "1">>, <<"-", "1">>,
      <<"-", "0">>, <<"1", "0">>, <<>>, <<"-">>, <<"x">>, <<"1", "x">>, sOne, sNope }

Called(op, path, text, on, wrote, r) ==
    [op |-> op, path |-> path, text |-> text, on |-> on, wrote |-> wrote,
     val |-> r.val, err |-> r.err, panic |-> r.panic]

InitFind ==
    /\ p = Parse(<<>>)
    /\ yields = <<>>
    /\ root \in Roots
    /\ ret = Idle

FindCall ==
    /\ ret.op = "idle"
    /\ \E path \in FindPaths :
          ret' = Called("Find", path, <<>>, InvalidValue, FALSE, Find(path, root))
    /\ UNCHANGED <<p, yields, root>>

\* Get on any path, or on the path a Set has just returned from with no
\* error
GetCall ==
    /\ \/ /\ ret.op = "idle"
          /\ \E path \in FindPaths :
                ret' = Called("Get", path, <<>>, InvalidValue, FALSE, Get(path, root))
       \/ /\ ret.op = "Set" /\ ret.err = "nil"
          /\ ret' = Called("Get", ret.path, ret.text, InvalidValue, TRUE,
                           Get(ret.path, root))
    /\ UNCHANGED <<p, yields, root>>

SetCall ==
    /\ ret.op = "idle"
    /\ \E path \in FindPaths, text \in Texts :
          LET r == Set(path, text, root)
          IN  /\ root' = r.root
              /\ ret' = Called("Set", path, text, root, FALSE,
                               Result(InvalidValue, r.err))
    /\ UNCHANGED <<p, yields>>

MustFindCall ==
    /\ ret.op = "idle"
    /\ \E path \in FindPaths :
          ret' = Called("MustFind", path, <<>>, InvalidValue, FALSE,
                        MustFind(path, root))
    /\ UNCHANGED <<p, yields, root>>

MustGetCall ==
    /\ ret.op = "idle"
    /\ \E path \in FindPaths :
          ret' = Called("MustGet", path, <<>>, InvalidValue, FALSE,
                        MustGet(path, root))
    /\ UNCHANGED <<p, yields, root>>

MustSetCall ==
    /\ ret.op = "idle"
    /\ \E path \in FindPaths, text \in Texts :
          LET r == MustSet(path, text, root)
          IN  /\ root' = r.root
              /\ ret' = Called("MustSet", path, text, root, FALSE,
                               [val |-> InvalidValue, err |-> "nil", panic |-> r.panic])
    /\ UNCHANGED <<p, yields>>

ValueByKeyCall ==
    /\ ret.op = "idle"
    /\ \E value \in KeyTargets, key \in KeyTexts :
          ret' = Called("valueByKey", <<>>, key, value, FALSE, valueByKey(value, key))
    /\ UNCHANGED <<p, yields, root>>

\* the caller has looked at the result
Done ==
    /\ ret.op # "idle"
    /\ ret' = Idle
    /\ UNCHANGED <<p, yields, root>>

NextFind ==
    \/ FindCall \/ GetCall \/ SetCall \/ ValueByKeyCall
    \/ MustFindCall \/ MustGetCall \/ MustSetCall
    \/ Done

SpecFind == InitFind /\ [][NextFind]_vars

----------------------------------------------------------------------------
(* Specification of ParseElement: a Path is tokenized as in Spec and, in    *)
(* between two calls of Next, ParseElement is applied the way Find applies  *)
(* it, to the element and token Next yielded last; before the first call    *)
(* of Next it is applied to the whole path text or the empty text under     *)
(* any token kind.                                                          *)

\* the (name, key, err) ParseElement returned for (element, token)
Parsed(element, token, r) ==
    [op |-> "ParseElement", path |-> element, text |-> <<>>, on |-> InvalidValue,
     wrote |-> FALSE,
     val |-> [kind |-> "parsed", token |-> token, name |-> r.name, key |-> r.key],
     err |-> r.err, panic |-> FALSE]

NextElementCall ==
    /\ ret.op = "idle"
    /\ NextCall

ParseElementCall ==
    /\ ret.op = "idle"
    /\ \/ /\ yields # <<>>
          /\ LET y == yields[Len(yields)]
             IN  ret' = Parsed(y.element, y.token, ParseElement(y.element, y.token))
       \/ /\ yields = <<>>
          /\ \E element \in {p.path, <<>>}, token \in Token :
                ret' = Parsed(element, token, ParseElement(element, token))
    /\ UNCHANGED <<p, yields, root>>

NextElement == NextElementCall \/ ParseElementCall \/ Done

SpecElement == Init /\ [][NextElement]_vars

----------------------------------------------------------------------------
(* Specification of the converter: a destination value as the converter    *)
(* tests construct it, holding contents from before the call, and one call *)
(* of StringToValue on it with a text of comma-separated segments.         *)

sBar == <<"B", "a", "r">>
sBaz == <<"B", "a", "z">>

\* the struct of TestStringToValueStruct, with contents from before the call
TestStruct ==
    StructValue(<<Field(sFoo, StringValue(<<"y">>)), Field(sBar, IntValue(7)),
                  Field(sBaz, BoolValue(FALSE))>>)

\* int8, uint8, int16, int, [2]int, []string, []int, map[string]int, the
\* struct and *int
Dests ==
    { Int8Value(7), Uint8Value(7), Int16Value(7), IntValue(7),
      ArrayValue(<<IntValue(7), IntValue(8)>>),
      SliceOf(StringValue(<<>>), <<StringValue(<<"y">>)>>),
      SliceOf(IntValue(0), <<IntValue(7)>>),
      MapOf(StringValue(<<>>), IntValue(0), <<<<StringValue(<<"y">>), IntValue(7)>>>>),
      TestStruct,
      PointerValue(IntValue(7)) }

\* the segments a text is made of: numbers, a word, and name=value pairs
ConvPieces ==
    { <<"1">>, <<"3", "0", "0">>, <<"x">>,
      sFoo \o <<"=", "x">>, sBar \o <<"=", "1">>, sBar \o <<"=", "x">>,
      sBaz \o <<"=", "t", "r", "u", "e">>, sNope \o <<"=", "1">> }

\* "," as in "1,2,3" and ", " as in "red, green, blue"
Seps == { <<",">>, <<",", " ">> }

\* strings.Join
RECURSIVE Join(_, _)
Join(ss, sep) ==
    IF ss = <<>> THEN <<>>
    ELSE IF Len(ss) = 1 THEN ss[1]
    ELSE ss[1] \o sep \o Join(Tail(ss), sep)

\* the texts, bare or in braces
ConvTexts ==
    LET bare == {Join(ss, sep) : ss \in SeqsUpTo(ConvPieces, MaxSegments), sep \in Seps}
    IN  bare \cup {<<"{">> \o t \o <<"}">> : t \in bare}

InitConv ==
    /\ p = Parse(<<>>)
    /\ yields = <<>>
    /\ root \in Dests
    /\ ret = Idle

\* each destination is converted into once; on is the destination as it was
\* before the call
StringToValueCall ==
    /\ ret.op = "idle"
    /\ root \in Dests
    /\ \E text \in ConvTexts :
          LET r == StringToValue(text, root)
          IN  /\ root' = r.val
              /\ ret' = Called("StringToValue", <<>>, text, root, FALSE,
                               Result(r.val, r.err))
    /\ UNCHANGED <<p, yields>>

NextConv == StringToValueCall \/ Done

SpecConv == InitConv /\ [][NextConv]_vars

TypeOK ==
    /\ p.path \in PathStrings
    /\ p.length = Len(p.path)
    /\ p.current \in 0..p.length
    /\ \A k \in 1..Len(yields) : yields[k].token \in Token

----------------------------------------------------------------------------
(* Vocabulary of the tokenizer properties                                  *)

Terminal(token) == token \in {NoToken, InvalidToken}

\* index of the first call that yielded NoToken or InvalidToken, 0 if none yet
FirstEnd ==
    IF \E k \in 1..Len(yields) : Terminal(yields[k].token)
    THEN CHOOSE k \in 1..Len(yields) :
            /\ Terminal(yields[k].token)
            /\ \A j \in 1..(k - 1) : ~Terminal(yields[j].token)
    ELSE 0

\* the <<element, token>> pairs of a sequence of yields
Pairs(ys) == [k \in 1..Len(ys) |-> <<ys[k].element, ys[k].token>>]

RECURSIVE Without(_, _)
Without(s, c) ==
    IF s = <<>> THEN <<>>
    ELSE IF Head(s) = c THEN Without(Tail(s), c)
         ELSE <<Head(s)>> \o Without(Tail(s), c)

\* Driving Next on q until the first NoToken or InvalidToken: the pairs
\* yielded, the terminal one included.
RECURSIVE Drive(_, _)
Drive(q, fuel) ==
    LET r == PathNext(q)
    IN  IF Terminal(r.token) \/ fuel = 0
        THEN <<  <<r.element, r.token>>  >>
        ELSE <<  <<r.element, r.token>>  >>
             \o Drive([q EXCEPT !.current = r.current], fuel - 1)

Tokenize(path) == Drive(Parse(path), Len(path) + 1)

\* The paths made only of well-formed elements, each with the elements it
\* is made of.  A name is a non-empty run of ordinary characters, a key a
\* non-empty run of ordinary characters between brackets.  Elements are
\* joined by a separator, except that a key element directly follows a
\* closed bracket; a key element can also start the path; one leading
\* separator is allowed before a name or a keyed name.
NameChars == PathChars \ {"[", "]", "."}

Runs == SeqsUpTo(NameChars, MaxLen) \ {<<>>}

NameElements == {<<n, NameToken>> : n \in Runs}

KeyedNameElements ==
    {<<n \o <<"[">> \o k \o <<"]">>, KeyedNameToken>> : n \in Runs, k \in Runs}

KeyElements == {<<(<<"[">> \o k) \o <<"]">>, KeyToken>> : k \in Runs}

Extend(w) ==
    LET after(sep, es) ==
            {[path |-> (w.path \o sep) \o e[1], toks |-> Append(w.toks, e)] : e \in es}
        named == NameElements \cup KeyedNameElements
        all ==
            IF w.toks = <<>>
            THEN IF w.path = <<>>
                 THEN after(<<>>, named \cup KeyElements)
                 ELSE after(<<>>, named)
            ELSE after(<<".">>, named)
                 \cup (IF w.path[Len(w.path)] = "]"
                       THEN after(<<>>, KeyElements) ELSE {})
    IN  {x \in all : Len(x.path) <= MaxLen}

RECURSIVE WellFormedUpTo(_)
WellFormedUpTo(n) ==
    IF n = 0
    THEN {[path |-> <<>>, toks |-> <<>>], [path |-> <<".">>, toks |-> <<>>]}
    ELSE LET prev == WellFormedUpTo(n - 1)
         IN  prev \cup UNION {Extend(w) : w \in prev}

WellFormed == {w \in WellFormedUpTo(MaxLen) : w.path # <<".">>}

----------------------------------------------------------------------------
(* Properties of the tokenizer                                             *)

\* C3: for a path made only of well-formed elements the successive Next
\* calls yield exactly the elements the path is made of, each with its
\* kind and its text, in path order, and then NoToken.
C3_OneTokenPerElement ==
    \A w \in WellFormed :
        (w.path = p.path /\ Len(yields) > Len(w.toks)) =>
            Pairs(SubSeq(yields, 1, Len(w.toks) + 1))
                = Append(w.toks, <<  <<>>, NoToken  >>)

\* a keyed name, then a key, fully tokenized through NoToken
C3_Witness ==
    \E w \in WellFormed :
        /\ w.path = p.path
        /\ Len(w.toks) >= 2
        /\ w.toks[1][2] = KeyedNameToken
        /\ w.toks[2][2] = KeyToken
        /\ Len(yields) = Len(w.toks) + 1
        /\ yields[Len(yields)].token = NoToken

\* The malformed shapes of a path.
DoubleSeparator(s) == \E k \in 1..(Len(s) - 1) : s[k] = "." /\ s[k + 1] = "."

OnlySeparator(s) == s = <<".">>

TrailingSeparator(s) == Len(s) > 0 /\ s[Len(s)] = "."

EmptyPair(s) == \E k \in 1..(Len(s) - 1) : s[k] = "[" /\ s[k + 1] = "]"

\* an unmatched '[' or ']', or a '[' inside an open key
RECURSIVE BracketFault(_, _)
BracketFault(s, open) ==
    IF s = <<>> THEN open
    ELSE CASE Head(s) = "[" -> open \/ BracketFault(Tail(s), TRUE)
           [] Head(s) = "]" -> ~open \/ BracketFault(Tail(s), FALSE)
           [] OTHER -> BracketFault(Tail(s), open)

Malformed(s) ==
    \/ DoubleSeparator(s)
    \/ OnlySeparator(s)
    \/ TrailingSeparator(s)
    \/ EmptyPair(s)
    \/ BracketFault(s, FALSE)

\* C4: driving Next on a malformed path (two separators in a row, only a
\* separator, a trailing separator, an unmatched bracket, a '[' inside an
\* open key, an empty bracket pair) ends with InvalidToken and an empty
\* element, never with NoToken, and the tokens yielded before it are the
\* tokens of the prefix of the path consumed before the failing call.
C4_MalformedEndsInvalid ==
    (Malformed(p.path) /\ FirstEnd > 0) =>
        LET k == FirstEnd
        IN  /\ yields[k].token = InvalidToken
            /\ yields[k].element = <<>>
            /\ Append(Pairs(SubSeq(yields, 1, k - 1)), <<  <<>>, NoToken  >>)
                   = Tokenize(Slice(p.path, 0, yields[k].from))

\* two valid tokens, then the invalid one
C4_Witness ==
    /\ Malformed(p.path)
    /\ FirstEnd = 3
    /\ yields[3].token = InvalidToken

\* C5 as stated: once NoToken or InvalidToken has been yielded, every
\* later call yields NoToken or InvalidToken.
C5_TerminalStays ==
    \A i, j \in 1..Len(yields) :
        (i < j /\ Terminal(yields[i].token)) => Terminal(yields[j].token)

\* C5 amended: once NoToken has been yielded, every later call yields
\* NoToken and leaves the cursor where it is.  (After InvalidToken a later
\* call can yield a token again: "..a" yields InvalidToken, then the name
\* "a".)
C5_NoTokenStays ==
    \A i, j \in 1..Len(yields) :
        (i < j /\ yields[i].token = NoToken) =>
            (yields[j].token = NoToken /\ yields[j].to = yields[i].to)

\* tokens, then NoToken, then two more calls
C5_Witness ==
    /\ FirstEnd >= 2
    /\ yields[FirstEnd].token = NoToken
    /\ Len(yields) >= FirstEnd + 2

\* C6: the cursor never exceeds the path length, every call that yields a
\* name, key or keyed-name token strictly advances it, and NoToken or
\* InvalidToken is reached within len(path)+1 calls.
C6_Terminates ==
    /\ p.current <= p.length
    /\ \A k \in 1..Len(yields) :
          /\ yields[k].to <= p.length
          /\ ~Terminal(yields[k].token) => yields[k].to > yields[k].from
    /\ Len(yields) >= p.length + 1 => FirstEnd \in 1..(p.length + 1)

\* three tokens before the end
C6_Witness ==
    /\ FirstEnd = 4
    /\ \A k \in 1..3 : yields[k].to > yields[k].from

\* C7: when the stream ends in NoToken with no InvalidToken before it,
\* the element texts yielded, concatenated, are the path without its
\* separators.
C7_ElementsRebuildPath ==
    (FirstEnd > 0 /\ yields[FirstEnd].token = NoToken) =>
        Concat([k \in 1..(FirstEnd - 1) |-> yields[k].element])
            = Without(p.path, ".")

\* a path with a separator and a key, consumed to NoToken
C7_Witness ==
    /\ FirstEnd >= 3
    /\ yields[FirstEnd].token = NoToken
    /\ \E k \in 1..Len(p.path) : p.path[k] = "."
    /\ \E k \in 1..Len(p.path) : p.path[k] = "["

----------------------------------------------------------------------------
(* Properties of the resolver                                              *)

\* the names of the fields of a struct value
FieldNames(v) == {v.fields[k].name : k \in 1..Len(v.fields)}

\* the texts of the keys of a map with string keys
KeysOf(m) == {m.entries[k][1].s : k \in 1..Len(m.entries)}

Scalar(v) == v.kind \in {"bool", "int", "string"}

\* C1: on a root struct whose field Map holds struct entries under string
\* keys, Find("Map[K].F") for an existing key K succeeds and returns the
\* field F of the entry under K, not the entry.
C1_FindDescendsPastKeyedName ==
    (ret.op = "Find" /\ Indirect(root).kind = "struct") =>
        LET m == FieldByName(Indirect(root), sMap)
        IN  m.kind = "map" =>
                \A K \in KeysOf(m) :
                    LET entry == MapIndex(m, StringValue(K))
                    IN  entry.kind = "struct" =>
                            \A F \in FieldNames(entry) :
                                ret.path = (((sMap \o <<"[">>) \o K) \o <<"]", ".">>) \o F
                                    => /\ ~ret.panic
                                       /\ ret.err = "nil"
                                       /\ ret.val = FieldByName(entry, F)

\* C2: after Set("Slice[i].F", text) has returned no error for an element
\* i of the slice and a scalar field F that text converts into,
\* Get("Slice[i].F") on the same root returns the value converted from
\* text.
C2_GetReturnsWhatSetWrote ==
    (ret.op = "Get" /\ ret.wrote /\ Indirect(root).kind = "struct") =>
        LET sl == FieldByName(Indirect(root), sSlice)
        IN  sl.kind = "slice" =>
                \A i \in 1..Len(sl.elems) :
                    sl.elems[i].kind = "struct" =>
                        \A F \in FieldNames(sl.elems[i]) :
                            LET leaf == FieldByName(sl.elems[i], F)
                                index == <<Digits[i]>>
                            IN  ( /\ Scalar(leaf)
                                  /\ StringToValue(ret.text, leaf).err = "nil"
                                  /\ ret.path = (((sSlice \o <<"[">>) \o index)
                                                    \o <<"]", ".">>) \o F )
                                    => /\ ~ret.panic
                                       /\ ret.err = "nil"
                                       /\ ret.val = StringToValue(ret.text, leaf).val

\* the tokenizer, driven over the whole path, ends in InvalidToken
EndsInvalid(path) ==
    LET toks == Tokenize(path) IN toks[Len(toks)][2] = InvalidToken

\* C8: when tokenizing the whole path yields InvalidToken at some element,
\* Find reports it: it returns an error and no value, whatever the root.
\* (The claim names the error invalid-path; its kind is left open here, and
\* a call that panics is left to C10, so that what violates this is a call
\* that returns a value with no error.)
C8_FindReportsSyntaxError ==
    (ret.op = "Find" /\ EndsInvalid(ret.path) /\ ~ret.panic) =>
        /\ ret.err # "nil"
        /\ ~IsValid(ret.val)

\* walking the names from struct v meets a name that is no field
RECURSIVE MissingField(_, _)
MissingField(v, names) ==
    /\ names # <<>>
    /\ v.kind = "struct"
    /\ \/ ~IsValid(FieldByName(v, Head(names)))
       \/ MissingField(FieldByName(v, Head(names)), Tail(names))

\* the elements of a path made of names only, <<>> for any other path
NamesOnly(path) ==
    LET toks == Tokenize(path)
    IN  IF /\ toks[Len(toks)][2] = NoToken
           /\ \A k \in 1..(Len(toks) - 1) : toks[k][2] = NameToken
        THEN [k \in 1..(Len(toks) - 1) |-> toks[k][1]]
        ELSE <<>>

\* C9: when a name element of the path is not a field of the struct the
\* walk has reached, Find returns an invalid-path error and no value, also
\* when that name is the last element.
C9_MissingFieldIsInvalidPath ==
    (ret.op = "Find" /\ MissingField(Indirect(root), NamesOnly(ret.path))) =>
        /\ ~ret.panic
        /\ IsInvalidPath(ret.err)
        /\ ~IsValid(ret.val)

\* C10: valueByKey on an array or slice of length n returns element i for
\* a key that is the decimal text of i with 0 <= i < n, and for every other
\* key returns an error and no value without panicking: invalid-path for
\* text that is no integer, out-of-range for an integer outside 0..n-1.
C10_IndexInRangeOrError ==
    (ret.op = "valueByKey" /\ ret.on.kind \in {"array", "slice"}) =>
        LET n == Len(ret.on.elems)
            a == Atoi(ret.text)
        IN  /\ ~ret.panic
            /\ (a.err = "nil" /\ a.n \in 0..(n - 1)) =>
                    (ret.err = "nil" /\ ret.val = ret.on.elems[a.n + 1])
            /\ a.err # "nil" => (IsInvalidPath(ret.err) /\ ~IsValid(ret.val))
            /\ (a.err = "nil" /\ a.n \notin 0..(n - 1)) =>
                    (ret.err = ErrIndexOutOfRange /\ ~IsValid(ret.val))

\* C11: Find with the empty path succeeds on a root that is not nil and
\* returns the root itself, dereferenced through a leading pointer.
C11_EmptyPathReturnsRoot ==
    (ret.op = "Find" /\ ret.path = <<>> /\ root.kind # "nil") =>
        /\ ~ret.panic
        /\ ret.err = "nil"
        /\ ret.val = Indirect(root)

\* C12: when Find on the same path and root returns an error, Set returns
\* an error and the root is what it was before the call.
C12_SetFailsWhereFindFails ==
    (ret.op = "Set" /\ ~Find(ret.path, ret.on).panic
                    /\ Find(ret.path, ret.on).err # "nil") =>
        /\ ret.err # "nil"
        /\ root = ret.on

\* C20: MustFind, MustGet and MustSet return what Find, Get and Set return
\* and leave the root as they leave it when those succeed, and panic exactly
\* when those return an error.
C20_MustMatchesPlain ==
    /\ ret.op = "MustFind" =>
          LET f == Find(ret.path, root)
          IN  IF f.panic \/ f.err # "nil" THEN ret.panic
              ELSE ~ret.panic /\ ret.val = f.val
    /\ ret.op = "MustGet" =>
          LET g == Get(ret.path, root)
          IN  IF g.panic \/ g.err # "nil" THEN ret.panic
              ELSE ~ret.panic /\ ret.val = g.val
    /\ ret.op = "MustSet" =>
          LET t == Set(ret.path, ret.text, ret.on)
          IN  IF t.err # "nil" THEN ret.panic
              ELSE ~ret.panic /\ root = t.root

----------------------------------------------------------------------------
(* ParseElement                                                             *)

\* how many times the character c occurs in s
Count(s, c) == Cardinality({i \in 1..Len(s) : s[i] = c})

\* the keyed-name yields of Next so far whose element is the given text
KeyedNameYields(element) ==
    {i \in 1..Len(yields) : /\ yields[i].token = KeyedNameToken
                            /\ yields[i].element = element}

\* C18: ParseElement returns ErrInvalidArgument with an empty name and an
\* empty key when the element text is empty, whatever the token kind, and
\* when the token kind is InvalidToken or NoToken, whatever the text; for
\* NameToken with a text that is not empty it returns the whole text as the
\* name, an empty key and no error.
C18_ParseElementArguments ==
    ret.op = "ParseElement" =>
        /\ (ret.path = <<>> \/ ret.val.token \in {InvalidToken, NoToken}) =>
              /\ ret.err = ErrInvalidArgument
              /\ ret.val.name = <<>>
              /\ ret.val.key = <<>>
        /\ (ret.path # <<>> /\ ret.val.token = NameToken) =>
              /\ ret.err = "nil"
              /\ ret.val.name = ret.path
              /\ ret.val.key = <<>>

C18_Witness ==
    /\ ret.op = "ParseElement"
    /\ ret.path = <<>>
    /\ ret.val.token = NameToken
    /\ ret.err = ErrInvalidArgument

\* C19: for KeyedNameToken, ParseElement of an element N[K] with exactly one
\* '[' returns the name N and the key K without an error, and returns an
\* invalid-path error for an element that does not hold exactly one '[';
\* every keyed-name element Next yields parses without error into a name
\* and a key that rebuild it.
C19_KeyedNameParses ==
    (ret.op = "ParseElement" /\ ret.val.token = KeyedNameToken /\ ret.path # <<>>) =>
        /\ (Count(ret.path, "[") = 1 /\ ret.path[Len(ret.path)] = "]") =>
              /\ ret.err = "nil"
              /\ Count(ret.val.name, "[") = 0
              /\ ret.val.name \o <<"[">> \o ret.val.key \o <<"]">> = ret.path
        /\ Count(ret.path, "[") # 1 =>
              /\ ret.err = ErrInvalidPath
              /\ ret.val.name = <<>>
              /\ ret.val.key = <<>>
        /\ KeyedNameYields(ret.path) # {} =>
              /\ ret.err = "nil"
              /\ Count(ret.val.name, "[") = 0
              /\ Count(ret.val.key, "]") = 0
              /\ ret.val.name \o <<"[">> \o ret.val.key \o <<"]">> = ret.path

C19_Witness ==
    /\ ret.op = "ParseElement"
    /\ ret.val.token = KeyedNameToken
    /\ KeyedNameYields(ret.path) # {}
    /\ ret.val.name # <<>>
    /\ ret.val.key # <<>>

----------------------------------------------------------------------------
(* The converter                                                            *)

\* a number fits an integer kind of a narrow width
Fits(n, kind) ==
    LET m == 2 ^ Bits(kind)
    IN  IF kind \in IntKinds THEN 0 - m \div 2 <= n /\ n < m \div 2
        ELSE 0 <= n /\ n < m

NarrowKinds == {"int8", "int16", "uint8", "uint16"}

\* what a text of a simple value stands for in the type of v, and whether
\* it stands for anything
Convertible(text, v) ==
    CASE v.kind = "string" -> TRUE
      [] v.kind = "int" -> ParseInt(text).err = "nil"
      [] v.kind = "bool" -> ParseBool(text).err = "nil"

Expected(text, v) ==
    CASE v.kind = "string" -> StringValue(text)
      [] v.kind = "int" -> IntValue(ParseInt(text).n)
      [] v.kind = "bool" -> BoolValue(ParseBool(text).b)

Min(a, b) == IF a < b THEN a ELSE b

\* C13: converting decimal text into a signed or unsigned integer of a
\* narrow width returns an error and leaves the destination unchanged when
\* the parsed number does not fit the width; no wrapped value is stored.
C13_OverflowIsError ==
    (ret.op = "StringToValue" /\ ret.on.kind \in NarrowKinds) =>
        LET r == IF ret.on.kind \in IntKinds THEN ParseInt(ret.text)
                 ELSE ParseUint(ret.text)
        IN  (r.err = "nil" /\ ~Fits(r.n, ret.on.kind)) =>
                (ret.err # "nil" /\ root = ret.on)

\* a call on an array of ints whose first min(n, k) elements are numbers
ArrayCall ==
    /\ ret.op = "StringToValue"
    /\ ret.on.kind = "array"
    /\ \A i \in 1..Len(ret.on.elems) : ret.on.elems[i].kind = "int"
    /\ LET a == Split(ret.text, ",")
       IN  \A i \in 1..Min(Len(ret.on.elems), Len(a)) :
               Convertible(TrimSpace(a[i]), ret.on.elems[i])

\* the call succeeded and slot i holds the trimmed i-th element for every
\* i < min(n, k), whatever the text holds past the n-th element
ArrayFilled ==
    LET a == Split(ret.text, ",")
    IN  /\ ret.err = "nil"
        /\ root.kind = "array"
        /\ Len(root.elems) = Len(ret.on.elems)
        /\ \A i \in 1..Min(Len(ret.on.elems), Len(a)) :
               root.elems[i] = Expected(TrimSpace(a[i]), ret.on.elems[i])

\* C14 as stated: converting k comma-separated elements into an array of
\* length n fills slots i < min(n, k) with the trimmed elements, ignores
\* the elements from position n on, and leaves slots k..n-1 as they were
\* before the call.
C14_ArrayKeepsRest ==
    ArrayCall =>
        /\ ArrayFilled
        /\ \A i \in (Len(Split(ret.text, ",")) + 1)..Len(ret.on.elems) :
               root.elems[i] = ret.on.elems[i]

\* C14 amended: converting k comma-separated elements into an array of
\* length n fills slots i < min(n, k) with the trimmed elements, ignores
\* the elements from position n on, and leaves slots k..n-1 holding the
\* zero value of the element type.
C14_ArrayZeroesRest ==
    ArrayCall =>
        /\ ArrayFilled
        /\ \A i \in (Len(Split(ret.text, ",")) + 1)..Len(ret.on.elems) :
               root.elems[i] = Zero(ret.on.elems[i])

C14_Witness ==
    /\ ArrayCall
    /\ Len(Split(ret.text, ",")) < Len(ret.on.elems)
    /\ ret.on.elems[Len(ret.on.elems)] # Zero(ret.on.elems[Len(ret.on.elems)])
    /\ ret.err = "nil"

\* C15: converting "e0, e1, ..., ek" into a string slice replaces the
\* destination with a slice of exactly k+1 elements that are e0..ek without
\* the surrounding spaces, as array conversion produces them.
C15_SliceTrimsLikeArray ==
    (/\ ret.op = "StringToValue"
     /\ ret.on.kind = "slice"
     /\ ret.on.elem.kind = "string"
     /\ LET a == Split(ret.text, ",")
        IN  Len(a) > 1 /\ \A i \in 2..Len(a) : a[i] # <<>> /\ a[i][1] = " ") =>
        LET a == Split(ret.text, ",")
        IN  /\ ret.err = "nil"
            /\ Len(root.elems) = Len(a)
            /\ \A i \in 1..Len(a) : root.elems[i] = StringValue(TrimSpace(a[i]))

\* the segments of a struct text in braces, and the name=value pair of the
\* i-th segment
StructSegments(text) == Split(SubSeq(text, 2, Len(text) - 1), ",")

PairOf(seg) == Split(TrimSpace(seg), "=")

\* a call on a struct with a text "{f1=v1, f2=v2, ...}" that names fields of
\* the struct, each once, with value texts their types can hold
StructCall ==
    /\ ret.op = "StringToValue"
    /\ ret.on.kind = "struct"
    /\ Len(ret.text) >= 2
    /\ ret.text[1] = "{"
    /\ ret.text[Len(ret.text)] = "}"
    /\ LET segs == StructSegments(ret.text)
       IN  /\ \A i \in 1..Len(segs) :
                 /\ Len(PairOf(segs[i])) = 2
                 /\ PairOf(segs[i])[1] \in {ret.on.fields[k].name : k \in 1..Len(ret.on.fields)}
                 /\ Convertible(PairOf(segs[i])[2], FieldByName(ret.on, PairOf(segs[i])[1]))
           /\ \A i, j \in 1..Len(segs) :
                 PairOf(segs[i])[1] = PairOf(segs[j])[1] => i = j

\* C16: converting "{f1=v1, f2=v2, ...}" into a struct that has the fields
\* f1, f2, ... sets each named field to the conversion of its value text
\* and leaves every field the text does not name unchanged.
C16_StructSetsNamedFields ==
    StructCall =>
        LET segs == StructSegments(ret.text)
        IN  /\ ret.err = "nil"
            /\ root.kind = "struct"
            /\ Len(root.fields) = Len(ret.on.fields)
            /\ \A k \in 1..Len(ret.on.fields) :
                  LET f == ret.on.fields[k]
                      named == {i \in 1..Len(segs) : PairOf(segs[i])[1] = f.name}
                  IN  /\ root.fields[k].name = f.name
                      /\ root.fields[k].value =
                             IF named = {} THEN f.value
                             ELSE Expected(PairOf(segs[CHOOSE i \in named : TRUE])[2], f.value)

C16_Witness ==
    /\ StructCall
    /\ Len(StructSegments(ret.text)) = 2
    /\ StructSegments(ret.text)[2][1] = " "
    /\ ret.err = "nil"
    /\ FieldByName(root, sFoo) # FieldByName(ret.on, sFoo)
    /\ FieldByName(root, sBar) = FieldByName(ret.on, sBar)
    /\ FieldByName(ret.on, sBar) # Zero(FieldByName(ret.on, sBar))

\* the elements a slice text describes, and whether one of them does not
\* convert
SliceFails ==
    LET a == Split(ret.text, ",")
    IN  \E i \in 1..Len(a) : ~Convertible(a[i], ret.on.elem)

SliceDescribed ==
    LET a == Split(ret.text, ",")
    IN  /\ root.kind = "slice"
        /\ Len(root.elems) = Len(a)
        /\ \A i \in 1..Len(a) : root.elems[i] = Expected(a[i], ret.on.elem)

\* a map segment does not split into two parts, or its key or its value
\* does not convert
MapFails ==
    LET segs == Split(ret.text, ",")
    IN  \E i \in 1..Len(segs) :
           \/ Len(PairOf(segs[i])) # 2
           \/ ~Convertible(PairOf(segs[i])[1], ret.on.key)
           \/ ~Convertible(PairOf(segs[i])[2], ret.on.elem)

\* the map holds one entry for each key of the text, with the value of the
\* last segment of that key, and no other entry
MapDescribed ==
    LET segs == Split(ret.text, ",")
        last(key) == CHOOSE i \in 1..Len(segs) :
                        /\ Expected(PairOf(segs[i])[1], ret.on.key) = key
                        /\ \A j \in (i + 1)..Len(segs) :
                              Expected(PairOf(segs[j])[1], ret.on.key) # key
    IN  /\ root.kind = "map"
        /\ {root.entries[k][1] : k \in 1..Len(root.entries)} =
               {Expected(PairOf(segs[i])[1], ret.on.key) : i \in 1..Len(segs)}
        /\ \A k, l \in 1..Len(root.entries) :
               root.entries[k][1] = root.entries[l][1] => k = l
        /\ \A k \in 1..Len(root.entries) :
               root.entries[k][2] =
                   Expected(PairOf(segs[last(root.entries[k][1])])[2], ret.on.elem)

\* C17: when converting text into a slice or a map fails on an element, a
\* key, a value or a map segment that does not split into two parts, the
\* call returns an error and the destination holds what it held before;
\* on success the destination holds only what the text describes.
C17_SliceMapAllOrNothing ==
    (ret.op = "StringToValue" /\ ret.on.kind \in {"slice", "map"}) =>
        /\ (IF ret.on.kind = "slice" THEN SliceFails ELSE MapFails) => ret.err # "nil"
        /\ ret.err # "nil" => root = ret.on
        /\ ret.err = "nil" =>
              IF ret.on.kind = "slice" THEN SliceDescribed ELSE MapDescribed

C17_Witness ==
    /\ ret.op = "StringToValue"
    /\ ret.on.kind = "map"
    /\ ret.on.entries # <<>>
    /\ Len(Split(ret.text, ",")) > 1
    /\ Len(PairOf(Split(ret.text, ",")[1])) = 2
    /\ Convertible(PairOf(Split(ret.text, ",")[1])[2], ret.on.elem)
    /\ ret.err # "nil"
    /\ root = ret.on

----------------------------------------------------------------------------
(* The shape of the key and keyed-name elements                             *)

\* the text of an element from its first '[' on, the bracket included
FromBracket(element) ==
    LET k == CHOOSE k \in 1..Len(element) :
                 element[k] = "[" /\ \A j \in 1..(k - 1) : element[j] # "["
    IN  SubSeq(element, k, Len(element))

\* C21: every element Next yields with kind KeyToken or KeyedNameToken ends
\* with ']', holds exactly one '[' and has at least one character between
\* the brackets; no yielded element ends in the empty pair "[]".
C21_KeyElementsBracketed ==
    \A k \in 1..Len(yields) :
        /\ yields[k].token \in {KeyToken, KeyedNameToken} =>
              /\ yields[k].element # <<>>
              /\ yields[k].element[Len(yields[k].element)] = "]"
              /\ Count(yields[k].element, "[") = 1
              /\ Len(FromBracket(yields[k].element)) > 2
        /\ yields[k].token \in {NameToken, KeyToken, KeyedNameToken} =>
              ~(/\ Len(yields[k].element) >= 2
                /\ SubSeq(yields[k].element, Len(yields[k].element) - 1,
                          Len(yields[k].element)) = <<"[", "]">>)

C21_Witness ==
    /\ Len(yields) >= 2
    /\ yields[1].token = KeyedNameToken
    /\ yields[2].token = KeyToken
    /\ Len(FromBracket(yields[2].element)) > 2

\* C22: every element Next yields with kind KeyedNameToken has a name that
\* is not empty before its '['; an element that begins with '[' is a
\* KeyToken, also right after a '.' separator.
C22_KeyedNameHasName ==
    \A k \in 1..Len(yields) :
        /\ yields[k].token = KeyedNameToken =>
              (yields[k].element # <<>> /\ yields[k].element[1] # "[")
        /\ (yields[k].element # <<>> /\ yields[k].element[1] = "[") =>
              yields[k].token = KeyToken

\* C23: Get does not panic: for every root that is not nil and every path
\* it returns a value and no error, or an error and no value, also when the
\* path names a key absent from a map or a name absent from a struct.
C23_GetNeverPanics ==
    (ret.op = "Get" /\ root.kind # "nil") =>
        /\ ~ret.panic
        /\ ret.err = "nil" => IsValid(ret.val)
        /\ ret.err # "nil" => ~IsValid(ret.val)

====
